---- MODULE Spec2Model ----
(***************************************************************************)
(* slack-scheduled-message: the slack_schedule_message tool (index.ts),    *)
(* scheduleSlackMessage, resolveToken, parseSlackTarget and                *)
(* resolveChannelId (src/slack-helpers.ts).                                *)
(*                                                                         *)
(* Strings whose characters the code inspects (to, message, botToken, ids) *)
(* are sequences of one-character strings.  JavaScript values that may be  *)
(* undefined or of several types are tagged records: Undef, Str(s),        *)
(* Num(n), NaN.  Error messages and account ids are opaque TLA+ strings.   *)
(***************************************************************************)
EXTENDS Integers, Sequences, FiniteSets, TLC

VARIABLES
    raw,            \* parseSlackTarget: the argument (SpecParse)
    parsed,         \* parseSlackTarget: the returned value (SpecParse)
    ppc,            \* "off" | "ready" | "returned" (SpecParse)
    pc,             \* position of the invocation: "idle" | "awaitOpen" | "awaitSchedule" | "done"
    caller,         \* "none" | "tool" (execute) | "direct" (scheduleSlackMessage called directly)
    args,           \* the tool call's params object (execute), NoArgs otherwise
    params,         \* ScheduleSlackMessageParams handed to scheduleSlackMessage
    trimmedMessage, \* local of scheduleSlackMessage
    nowSeconds,     \* local: Num(n) once Date.now() has been read, Undef before
    account,        \* local: the resolved account, NotResolved before step 4
    client,         \* local: Undef | [t |-> "injected"] | [t |-> "created", token |-> ...]
    recipient,      \* local: parseSlackTarget(to), NotParsed before step 6
    channelId,      \* local: Str(id) once resolved, Undef before
    openCalls,      \* conversations.open calls issued so far (their arguments)
    scheduleCalls,  \* chat.scheduleMessage calls issued so far (their arguments)
    openResponse,   \* what conversations.open answered, Undef before
    scheduleResponse, \* the chat.scheduleMessage response received, Undef before
    outcome,        \* of scheduleSlackMessage: Pending | [t |-> "result", ...] | [t |-> "thrown", ...]
    response        \* what execute returned (the payload), NoResponse before

parseVars == <<raw, parsed, ppc>>
callVars == <<pc, caller, args, params, trimmedMessage, nowSeconds, account, client,
              recipient, channelId, openCalls, scheduleCalls, openResponse,
              scheduleResponse, outcome, response>>
vars == <<raw, parsed, ppc, pc, caller, args, params, trimmedMessage, nowSeconds,
          account, client, recipient, channelId, openCalls, scheduleCalls,
          openResponse, scheduleResponse, outcome, response>>

-----------------------------------------------------------------------------
(* JavaScript values *)

Undef == [t |-> "undefined"]
NaN == [t |-> "nan"]
Str(s) == [t |-> "string", v |-> s]
Num(n) == [t |-> "number", v |-> n]

\* !x for the values the code tests: undefined, "" and NaN and 0 are falsy
Falsy(x) ==
    \/ x.t = "undefined"
    \/ x.t = "nan"
    \/ x.t = "string" /\ x.v = <<>>
    \/ x.t = "number" /\ x.v = 0

\* a ?? b
Coalesce(a, b) == IF a.t = "undefined" THEN b ELSE a

-----------------------------------------------------------------------------
(* String.prototype.trim / startsWith / slice on character sequences *)

WhiteSpace == {" ", "\t", "\n"}

RECURSIVE TrimStart(_)
TrimStart(s) ==
    IF s # <<>> /\ Head(s) \in WhiteSpace THEN TrimStart(Tail(s)) ELSE s

RECURSIVE TrimEnd(_)
TrimEnd(s) ==
    IF s # <<>> /\ s[Len(s)] \in WhiteSpace THEN TrimEnd(SubSeq(s, 1, Len(s) - 1)) ELSE s

Trim(s) == TrimEnd(TrimStart(s))

StartsWith(s, p) == Len(s) >= Len(p) /\ SubSeq(s, 1, Len(p)) = p

Slice(s, n) == SubSeq(s, n + 1, Len(s))

-----------------------------------------------------------------------------
(* parseSlackTarget *)

PUser == <<"u", "s", "e", "r", ":">>
PChannel == <<"c", "h", "a", "n", "n", "e", "l", ":">>
PSlack == <<"s", "l", "a", "c", "k", ":">>
PAt == <<"@">>
PHash == <<"#">>

\* [A-Z0-9] under the i flag
AlphaNumeric ==
    {"a", "b", "c", "d", "e", "f", "g", "h", "i", "j", "k", "l", "m",
     "n", "o", "p", "q", "r", "s", "t", "u", "v", "w", "x", "y", "z",
     "A", "B", "C", "D", "E", "F", "G", "H", "I", "J", "K", "L", "M",
     "N", "O", "P", "Q", "R", "S", "T", "U", "V", "W", "X", "Y", "Z",
     "0", "1", "2", "3", "4", "5", "6", "7", "8", "9"}

\* trimmed.match(/^<@([A-Z0-9]+)>$/i)
MentionMatch(s) ==
    /\ Len(s) >= 4
    /\ s[1] = "<"
    /\ s[2] = "@"
    /\ s[Len(s)] = ">"
    /\ \A i \in 3..(Len(s) - 1) : s[i] \in AlphaNumeric

\* mentionMatch[1]
MentionGroup(s) == SubSeq(s, 3, Len(s) - 1)

NoRecipient == [kind |-> "undefined"]
Recipient(k, i) == [kind |-> k, id |-> i]

\* id ? { kind, id } : undefined
RecipientOrNothing(k, id) == IF id # <<>> THEN Recipient(k, id) ELSE NoRecipient

\* parseSlackTarget with the bare-id default placed before the # prefix check
parseSlackTarget_catchAllEarly(rawTo) ==
    LET trimmed == Trim(rawTo) IN
    IF trimmed = <<>> THEN NoRecipient
    ELSE IF MentionMatch(trimmed) THEN Recipient("user", MentionGroup(trimmed))
    ELSE IF StartsWith(trimmed, PUser)
        THEN RecipientOrNothing("user", Trim(Slice(trimmed, Len(PUser))))
    ELSE IF StartsWith(trimmed, PChannel)
        THEN RecipientOrNothing("channel", Trim(Slice(trimmed, Len(PChannel))))
    ELSE IF StartsWith(trimmed, PSlack)
        THEN RecipientOrNothing("user", Trim(Slice(trimmed, Len(PSlack))))
    ELSE IF StartsWith(trimmed, PAt)
        THEN RecipientOrNothing("user", Trim(Slice(trimmed, 1)))
    ELSE Recipient("channel", trimmed)

\* parseSlackTarget with the # prefix mapped to a user
parseSlackTarget_hashAsUser(rawTo) ==
    LET trimmed == Trim(rawTo) IN
    IF trimmed = <<>> THEN NoRecipient
    ELSE IF MentionMatch(trimmed) THEN Recipient("user", MentionGroup(trimmed))
    ELSE IF StartsWith(trimmed, PUser)
        THEN RecipientOrNothing("user", Trim(Slice(trimmed, Len(PUser))))
    ELSE IF StartsWith(trimmed, PChannel)
        THEN RecipientOrNothing("channel", Trim(Slice(trimmed, Len(PChannel))))
    ELSE IF StartsWith(trimmed, PSlack)
        THEN RecipientOrNothing("user", Trim(Slice(trimmed, Len(PSlack))))
    ELSE IF StartsWith(trimmed, PAt)
        THEN RecipientOrNothing("user", Trim(Slice(trimmed, 1)))
    ELSE IF StartsWith(trimmed, PHash)
        THEN RecipientOrNothing("user", Trim(Slice(trimmed, 1)))
    ELSE Recipient("channel", trimmed)

parseSlackTarget(rawTo) ==
    LET trimmed == Trim(rawTo) IN
    IF trimmed = <<>> THEN NoRecipient
    ELSE IF MentionMatch(trimmed) THEN Recipient("user", MentionGroup(trimmed))
    ELSE IF StartsWith(trimmed, PUser)
        THEN RecipientOrNothing("user", Trim(Slice(trimmed, Len(PUser))))
    ELSE IF StartsWith(trimmed, PChannel)
        THEN RecipientOrNothing("channel", Trim(Slice(trimmed, Len(PChannel))))
    ELSE IF StartsWith(trimmed, PSlack)
        THEN RecipientOrNothing("user", Trim(Slice(trimmed, Len(PSlack))))
    ELSE IF StartsWith(trimmed, PAt)
        THEN RecipientOrNothing("user", Trim(Slice(trimmed, 1)))
    ELSE IF StartsWith(trimmed, PHash)
        THEN RecipientOrNothing("channel", Trim(Slice(trimmed, 1)))
    ELSE Recipient("channel", trimmed)

-----------------------------------------------------------------------------
(* scheduleSlackMessage: constants, errors, the values of its locals *)

MAX_SCHEDULE_DAYS == 120
MIN_SCHEDULE_BUFFER_SECONDS == 15

Error(m) == [t |-> "Error", message |-> m]
Thrown(e) == [t |-> "thrown", err |-> e]
Returned(v) == [t |-> "result", value |-> v]

EmptyMessageText == "Slack schedule requires text message"
TooSoonText ==
    "postAt must be at least " \o ToString(MIN_SCHEDULE_BUFFER_SECONDS) \o " seconds in the future"
TooFarText == "postAt must be within " \o ToString(MAX_SCHEDULE_DAYS) \o " days"
RecipientRequiredText == "Recipient is required for Slack scheduled messages"
OpenFailedText == "Failed to open Slack DM channel"
NoScheduledIdText == "Failed to schedule Slack message: no scheduled_message_id returned"
TokenMissingText(accountId) ==
    "Slack bot token missing for account \"" \o accountId \o "\" (set channels.slack.accounts."
        \o accountId \o ".botToken or SLACK_BOT_TOKEN for default)."

NoArgs == [t |-> "none"]
NoParams == [t |-> "none"]
NotResolved == [t |-> "notResolved"]
NotParsed == [kind |-> "notParsed"]
Pending == [t |-> "pending"]
NoResponse == [t |-> "none"]

\* The locals of one scheduleSlackMessage activation before its first statement.
Fresh ==
    [pc |-> "running", trimmedMessage |-> Undef, nowSeconds |-> Undef,
     account |-> NotResolved, client |-> Undef, recipient |-> NotParsed,
     channelId |-> Undef, openCalls |-> <<>>, scheduleCalls |-> <<>>,
     outcome |-> Pending]

\* throw e: the activation ends with e
Throw(s, e) == [s EXCEPT !.pc = "done", !.outcome = Thrown(e)]

Running(s) == s.pc = "running"

-----------------------------------------------------------------------------
(* scheduleSlackMessage, statement by statement *)

\* 1. params.message?.trim() ?? "" and the empty check
validateMessage(p, s) ==
    LET trimmed == IF p.message.t = "undefined" THEN <<>> ELSE Trim(p.message.v)
        s1 == [s EXCEPT !.trimmedMessage = Str(trimmed)]
    IN  IF trimmed = <<>> THEN Throw(s1, Error(EmptyMessageText)) ELSE s1

\* Math.floor(Date.now() / 1000)
FloorSeconds(nowMs) == nowMs \div 1000

\* postAt <= nowSeconds + MIN_SCHEDULE_BUFFER_SECONDS (false when postAt is NaN)
TooSoon_strict(postAt, now) ==
    postAt.t = "number" /\ postAt.v < now + MIN_SCHEDULE_BUFFER_SECONDS

TooSoon(postAt, now) ==
    postAt.t = "number" /\ postAt.v <= now + MIN_SCHEDULE_BUFFER_SECONDS

\* postAt > nowSeconds + MAX_SCHEDULE_DAYS * 24 * 60 * 60 (false when postAt is NaN)
TooFar(postAt, now) ==
    postAt.t = "number" /\ postAt.v > now + MAX_SCHEDULE_DAYS * 24 * 60 * 60

\* 2. and 3. the clock is read once, then the two window checks
validatePostAt(p, s, nowMs) ==
    LET now == FloorSeconds(nowMs)
        s1 == [s EXCEPT !.nowSeconds = Num(now)]
    IN  IF TooSoon(p.postAt, now) THEN Throw(s1, Error(TooSoonText))
        ELSE IF TooFar(p.postAt, now) THEN Throw(s1, Error(TooFarText))
        ELSE s1

\* resolveToken: account.botToken?.trim(), returned when non-empty
resolveToken(acct) ==
    LET token == IF acct.botToken.t = "undefined" THEN <<>> ELSE Trim(acct.botToken.v)
    IN  IF token # <<>> THEN [t |-> "ok", v |-> token]
        ELSE [t |-> "throw", err |-> Error(TokenMissingText(acct.accountId))]

\* 4. resolveSlackAccount (its answer is acct) and resolveToken; 5. the client
resolveCredentials(p, s, acct) ==
    IF acct.t = "throw" THEN Throw(s, acct.err)
    ELSE LET s1 == [s EXCEPT !.account = acct]
             token == resolveToken(acct)
         IN  IF token.t = "throw" THEN Throw(s1, token.err)
             ELSE [s1 EXCEPT !.client =
                        Coalesce(p.client, [t |-> "created", token |-> token.v])]

\* 6. parseSlackTarget(to) and the missing-recipient check
parseTarget(p, s) ==
    LET r == parseSlackTarget(p.to.v)
        s1 == [s EXCEPT !.recipient = r]
    IN  IF r = NoRecipient THEN Throw(s1, Error(RecipientRequiredText)) ELSE s1

\* the argument of client.chat.scheduleMessage
ScheduleArgs_alwaysThread(channel, text, postAt, threadTs) ==
    [channel |-> channel, text |-> text, post_at |-> postAt,
     thread_ts |-> IF threadTs.t = "string" THEN threadTs.v ELSE <<>>]

ScheduleArgs(channel, text, postAt, threadTs) ==
    IF Falsy(threadTs)
    THEN [channel |-> channel, text |-> text, post_at |-> postAt]
    ELSE [channel |-> channel, text |-> text, post_at |-> postAt, thread_ts |-> threadTs.v]

\* 8. client.chat.scheduleMessage(...) is issued and awaited
issueSchedule_userId(p, s, channel) ==
    [s EXCEPT !.pc = "awaitSchedule",
              !.channelId = Str(channel),
              !.scheduleCalls =
                  Append(@, ScheduleArgs(s.recipient.id, s.trimmedMessage.v, p.postAt, p.threadTs))]

issueSchedule(p, s, channel) ==
    [s EXCEPT !.pc = "awaitSchedule",
              !.channelId = Str(channel),
              !.scheduleCalls =
                  Append(@, ScheduleArgs(channel, s.trimmedMessage.v, p.postAt, p.threadTs))]

\* 7. resolveChannelId up to its await: a channel recipient returns its id and
\* the schedule call follows; a user recipient issues conversations.open
resolveChannelId(p, s) ==
    IF s.recipient.kind = "channel" THEN issueSchedule(p, s, s.recipient.id)
    ELSE [s EXCEPT !.pc = "awaitOpen",
                   !.openCalls = Append(@, [users |-> s.recipient.id])]

\* scheduleSlackMessage from its first statement to its first await or throw
scheduleStart_parseFirst(p, nowMs, acct) ==
    LET s1 == validateMessage(p, Fresh)
        s2 == IF Running(s1) THEN validatePostAt(p, s1, nowMs) ELSE s1
        s3 == IF Running(s2) THEN parseTarget(p, s2) ELSE s2
        s4 == IF Running(s3) THEN resolveCredentials(p, s3, acct) ELSE s3
    IN  IF Running(s4) THEN resolveChannelId(p, s4) ELSE s4

scheduleStart_credentialsFirst(p, nowMs, acct) ==
    LET s1 == resolveCredentials(p, Fresh, acct)
        s2 == IF Running(s1) THEN validateMessage(p, s1) ELSE s1
        s3 == IF Running(s2) THEN validatePostAt(p, s2, nowMs) ELSE s2
        s4 == IF Running(s3) THEN parseTarget(p, s3) ELSE s3
    IN  IF Running(s4) THEN resolveChannelId(p, s4) ELSE s4

scheduleStart(p, nowMs, acct) ==
    LET s1 == validateMessage(p, Fresh)
        s2 == IF Running(s1) THEN validatePostAt(p, s1, nowMs) ELSE s1
        s3 == IF Running(s2) THEN resolveCredentials(p, s2, acct) ELSE s2
        s4 == IF Running(s3) THEN parseTarget(p, s3) ELSE s3
    IN  IF Running(s4) THEN resolveChannelId(p, s4) ELSE s4

\* resolveChannelId after its await: response.channel?.id, or the thrown error
resolveChannelIdResumed(o) ==
    IF o.t = "throw" THEN [t |-> "throw", err |-> o.err]
    ELSE IF Falsy(o.channelId) THEN [t |-> "throw", err |-> Error(OpenFailedText)]
    ELSE [t |-> "ok", v |-> o.channelId.v]

\* the lines after await client.chat.scheduleMessage(...)
scheduleEnd_requestedFirst(p, channel, r) ==
    IF r.t = "throw" THEN Thrown(r.err)
    ELSE IF Falsy(r.scheduled_message_id) THEN Thrown(Error(NoScheduledIdText))
    ELSE Returned([scheduledMessageId |-> r.scheduled_message_id.v,
                   postAt |-> IF Falsy(r.post_at) THEN p.postAt ELSE r.post_at,
                   channelId |-> channel])

scheduleEnd(p, channel, r) ==
    IF r.t = "throw" THEN Thrown(r.err)
    ELSE IF Falsy(r.scheduled_message_id) THEN Thrown(Error(NoScheduledIdText))
    ELSE Returned([scheduledMessageId |-> r.scheduled_message_id.v,
                   postAt |-> Coalesce(r.post_at, p.postAt),
                   channelId |-> channel])

-----------------------------------------------------------------------------
(* execute of slack_schedule_message (index.ts) *)

\* String(x ?? "") for a string or missing x
StringOrEmpty(x) == IF x.t = "undefined" THEN Str(<<>>) ELSE x

\* Number(x) for a number or missing x
ToNumber(x) == IF x.t = "number" THEN x ELSE NaN

\* typeof x === "string" ? x : undefined
StringOrUndefined(x) == IF x.t = "string" THEN x ELSE Undef

\* the argument execute builds for scheduleSlackMessage; reading a field of a
\* missing params object throws a TypeError inside the try block
TypeErrorText == "Cannot read properties of undefined (reading 'to')"

executeParams(a) ==
    IF a.t = "undefined" THEN [t |-> "throw", err |-> Error(TypeErrorText)]
    ELSE [t |-> "ok",
          v |-> [to |-> StringOrEmpty(a.to),
                 message |-> StringOrEmpty(a.message),
                 postAt |-> ToNumber(a.postAt),
                 threadTs |-> StringOrUndefined(a.threadId),
                 accountId |-> StringOrUndefined(a.accountId),
                 client |-> Undef]]

\* err instanceof Error ? err.message : String(err)
ErrorText(err) == IF err.t = "Error" THEN err.message ELSE err.text

\* the payload execute returns for what its try block produced
toolPayload_rethrow(o) ==
    IF o.t = "result"
    THEN [ok |-> TRUE, scheduled |-> TRUE,
          scheduledMessageId |-> o.value.scheduledMessageId,
          postAt |-> o.value.postAt,
          channelId |-> o.value.channelId]
    ELSE IF o.err.t = "Error"
    THEN [ok |-> FALSE, scheduled |-> FALSE, error |-> ErrorText(o.err)]
    ELSE [raised |-> o.err]

toolPayload(o) ==
    IF o.t = "result"
    THEN [ok |-> TRUE, scheduled |-> TRUE,
          scheduledMessageId |-> o.value.scheduledMessageId,
          postAt |-> o.value.postAt,
          channelId |-> o.value.channelId]
    ELSE [ok |-> FALSE, scheduled |-> FALSE, error |-> ErrorText(o.err)]

-----------------------------------------------------------------------------
(* The state of one invocation, and the inputs drawn for it *)

Locals ==
    [pc |-> pc, trimmedMessage |-> trimmedMessage, nowSeconds |-> nowSeconds,
     account |-> account, client |-> client, recipient |-> recipient,
     channelId |-> channelId, openCalls |-> openCalls,
     scheduleCalls |-> scheduleCalls, outcome |-> outcome]

SetLocals(s) ==
    /\ pc' = s.pc
    /\ trimmedMessage' = s.trimmedMessage
    /\ nowSeconds' = s.nowSeconds
    /\ account' = s.account
    /\ client' = s.client
    /\ recipient' = s.recipient
    /\ channelId' = s.channelId
    /\ openCalls' = s.openCalls
    /\ scheduleCalls' = s.scheduleCalls
    /\ outcome' = s.outcome

\* what execute returns once its try block has produced o (nothing while it awaits)
Respond(by, o) ==
    IF by = "tool" /\ o # Pending THEN toolPayload(o) ELSE NoResponse

ToValues ==
    {<<"c", "h", "a", "n", "n", "e", "l", ":", "C", "1", "2", "3">>,
     <<"u", "s", "e", "r", ":", "U", "4", "5", "6">>,
     <<"#", "C", "7", "8", "9">>,
     <<"@", "U", "1", "1", "1">>,
     <<"<", "@", "U", "2", "2", "2", ">">>,
     <<"C", "9", "9", "9">>,
     <<>>,
     <<" ", "s", "l", "a", "c", "k", ":", "U", "3", " ">>,
     <<"u", "s", "e", "r", ":">>}

MessageValues == {<<>>, <<" ">>, <<"H", "i">>, <<" ", "H", "i", "\t">>}

MaxWindowSeconds == MAX_SCHEDULE_DAYS * 24 * 60 * 60

PostAtValues ==
    {0 - 60, MIN_SCHEDULE_BUFFER_SECONDS, MIN_SCHEDULE_BUFFER_SECONDS + 1,
     MIN_SCHEDULE_BUFFER_SECONDS + 2, 3600,
     MaxWindowSeconds, MaxWindowSeconds + 1, MaxWindowSeconds + 2}

ThreadValues == {<<>>, <<"1", "6", "7", ".", "1">>}

\* Date.now() readings, in milliseconds
NowMsValues == {0, 999, 1000}

ValidToken == <<"x", "o", "x", "b">>

\* what resolveSlackAccount may answer
AccountOutcomes ==
    {[t |-> "account", accountId |-> "default", botToken |-> b] :
        b \in {Undef, Str(<<" ">>), Str(ValidToken), Str(<<" ">> \o ValidToken)}}
    \cup {[t |-> "account", accountId |-> "work", botToken |-> b] :
        b \in {Undef, Str(ValidToken)}}
    \cup {[t |-> "throw", err |-> Error("Unknown Slack account")]}

\* what a rejected remote call may throw: an Error, or a value that is not one
RemoteErrors == {Error("channel_not_found"), [t |-> "value", text |-> "socket hang up"]}

DmChannel == <<"D", "9", "9", "9">>

\* what conversations.open may answer
OpenOutcomes ==
    {[t |-> "ok", channelId |-> c] : c \in {Str(DmChannel), Str(<<>>), Undef}}
    \cup {[t |-> "throw", err |-> e] : e \in RemoteErrors}

ConfirmedPostAt == MIN_SCHEDULE_BUFFER_SECONDS + 5

\* what chat.scheduleMessage may answer
ScheduleOutcomes ==
    {[t |-> "ok", scheduled_message_id |-> i, post_at |-> q] :
        i \in {Str(<<"Q", "1", "2">>), Str(<<>>), Undef},
        q \in {Num(ConfirmedPostAt), Num(0), Undef}}
    \cup {[t |-> "throw", err |-> e] : e \in RemoteErrors}

\* the params object a tool call may carry
ToolArgs ==
    {Undef} \cup
    [t : {"object"},
     to : {Undef} \cup {Str(x) : x \in ToValues},
     message : {Undef} \cup {Str(x) : x \in MessageValues},
     postAt : {Undef} \cup {Num(n) : n \in PostAtValues},
     threadId : {Undef, Num(5)} \cup {Str(x) : x \in ThreadValues},
     accountId : {Undef, Num(5), Str("work")}]

\* the params a direct caller of scheduleSlackMessage may pass
DirectParams ==
    [to : {Str(x) : x \in ToValues},
     message : {Undef} \cup {Str(x) : x \in MessageValues},
     postAt : {Num(n) : n \in PostAtValues},
     threadTs : {Undef} \cup {Str(x) : x \in ThreadValues},
     accountId : {Undef, Str("work")},
     client : {Undef, [t |-> "injected"]}]

-----------------------------------------------------------------------------
(* Spec: one invocation, through the tool or directly *)

ParseOff ==
    /\ raw = <<>>
    /\ parsed = NotParsed
    /\ ppc = "off"

Init ==
    /\ ParseOff
    /\ pc = "idle"
    /\ caller = "none"
    /\ args = NoArgs
    /\ params = NoParams
    /\ trimmedMessage = Undef
    /\ nowSeconds = Undef
    /\ account = NotResolved
    /\ client = Undef
    /\ recipient = NotParsed
    /\ channelId = Undef
    /\ openCalls = <<>>
    /\ scheduleCalls = <<>>
    /\ openResponse = Undef
    /\ scheduleResponse = Undef
    /\ outcome = Pending
    /\ response = NoResponse

\* execute(_toolCallId, params): runs to the first await, or to its return
execute ==
    /\ pc = "idle"
    /\ \E a \in ToolArgs, nowMs \in NowMsValues, acct \in AccountOutcomes :
        /\ caller' = "tool"
        /\ args' = a
        /\ LET ep == executeParams(a) IN
           IF ep.t = "throw"
           THEN /\ params' = NoParams
                /\ SetLocals([Fresh EXCEPT !.pc = "done"])
                /\ response' = toolPayload(Thrown(ep.err))
           ELSE /\ params' = ep.v
                /\ LET s == scheduleStart(ep.v, nowMs, acct) IN
                   /\ SetLocals(s)
                   /\ response' = Respond("tool", s.outcome)
        /\ UNCHANGED <<openResponse, scheduleResponse>>
        /\ UNCHANGED parseVars

\* scheduleSlackMessage(params) called directly (as the tests do)
scheduleSlackMessage ==
    /\ pc = "idle"
    /\ \E p \in DirectParams, nowMs \in NowMsValues, acct \in AccountOutcomes :
        /\ caller' = "direct"
        /\ args' = NoArgs
        /\ params' = p
        /\ LET s == scheduleStart(p, nowMs, acct) IN
           /\ SetLocals(s)
           /\ response' = Respond("direct", s.outcome)
        /\ UNCHANGED <<openResponse, scheduleResponse>>
        /\ UNCHANGED parseVars

\* the continuation after await client.conversations.open(...)
afterOpen(p, s, o) ==
    LET c == resolveChannelIdResumed(o) IN
    IF c.t = "throw" THEN Throw(s, c.err) ELSE issueSchedule(p, s, c.v)

OpenReturns ==
    /\ pc = "awaitOpen"
    /\ \E o \in OpenOutcomes :
        /\ openResponse' = o
        /\ LET s == afterOpen(params, Locals, o) IN
           /\ SetLocals(s)
           /\ response' = Respond(caller, s.outcome)
        /\ UNCHANGED <<caller, args, params, scheduleResponse>>
        /\ UNCHANGED parseVars

\* the continuation after await client.chat.scheduleMessage(...)
afterSchedule_retry(p, s, r) ==
    IF r.t = "ok" /\ Falsy(r.scheduled_message_id) /\ Len(s.scheduleCalls) < 2
    THEN [s EXCEPT !.scheduleCalls = Append(@, s.scheduleCalls[1])]
    ELSE [s EXCEPT !.pc = "done", !.outcome = scheduleEnd(p, s.channelId.v, r)]

afterSchedule(p, s, r) ==
    [s EXCEPT !.pc = "done", !.outcome = scheduleEnd(p, s.channelId.v, r)]

ScheduleReturns ==
    /\ pc = "awaitSchedule"
    /\ \E r \in ScheduleOutcomes :
        /\ scheduleResponse' = r
        /\ LET s == afterSchedule(params, Locals, r) IN
           /\ SetLocals(s)
           /\ response' = Respond(caller, s.outcome)
        /\ UNCHANGED <<caller, args, params, openResponse>>
        /\ UNCHANGED parseVars

Next ==
    \/ execute
    \/ scheduleSlackMessage
    \/ OpenReturns
    \/ ScheduleReturns

Spec == Init /\ [][Next]_vars

-----------------------------------------------------------------------------
(* SpecParse: parseSlackTarget applied to every input built from at most   *)
(* MaxTokens tokens.                                                       *)

MaxTokens == 4

Tokens ==
    {PUser, PChannel, PSlack, PAt, PHash, <<"<", "@">>, <<">">>, <<" ">>,
     <<"U">>, <<"c">>, <<"-">>, <<"U", "s", "e", "r", ":">>}

\* the tokens of pieces, joined in order
RECURSIVE Flatten(_)
Flatten(pieces) ==
    IF pieces = <<>> THEN <<>> ELSE Head(pieces) \o Flatten(Tail(pieces))

CallIdle ==
    /\ pc = "idle"
    /\ caller = "none"
    /\ args = NoArgs
    /\ params = NoParams
    /\ trimmedMessage = Undef
    /\ nowSeconds = Undef
    /\ account = NotResolved
    /\ client = Undef
    /\ recipient = NotParsed
    /\ channelId = Undef
    /\ openCalls = <<>>
    /\ scheduleCalls = <<>>
    /\ openResponse = Undef
    /\ scheduleResponse = Undef
    /\ outcome = Pending
    /\ response = NoResponse

InitParse ==
    /\ \E n \in 0..MaxTokens :
           \E pieces \in [1..n -> Tokens] : raw = Flatten(pieces)
    /\ parsed = NotParsed
    /\ ppc = "ready"
    /\ CallIdle

Parse ==
    /\ ppc = "ready"
    /\ parsed' = parseSlackTarget(raw)
    /\ ppc' = "returned"
    /\ UNCHANGED raw
    /\ UNCHANGED callVars

NextParse == Parse

SpecParse == InitParse /\ [][NextParse]_vars

-----------------------------------------------------------------------------
(* Properties *)

\* the input is empty or whitespace-only
IsBlank(str) == \A i \in 1..Len(str) : str[i] \in WhiteSpace

\* the input without its leading and trailing whitespace
TrimmedForm(str) ==
    IF IsBlank(str) THEN <<>>
    ELSE LET first == CHOOSE i \in 1..Len(str) :
                          str[i] \notin WhiteSpace /\ \A k \in 1..(i - 1) : str[k] \in WhiteSpace
             last == CHOOSE j \in 1..Len(str) :
                          str[j] \notin WhiteSpace /\ \A k \in (j + 1)..Len(str) : str[k] \in WhiteSpace
         IN  SubSeq(str, first, last)

Invoked == params # NoParams

MessageIsBlank == params.message.t = "undefined" \/ IsBlank(params.message.v)

FailedWith(text) == outcome = [t |-> "thrown", err |-> [t |-> "Error", message |-> text]]

FailedTooSoon == FailedWith("postAt must be at least 15 seconds in the future")
FailedTooFar == FailedWith("postAt must be within 120 days")
FailedEmptyMessage == FailedWith("Slack schedule requires text message")
FailedNoRecipient == FailedWith("Recipient is required for Slack scheduled messages")
FailedOpen == FailedWith("Failed to open Slack DM channel")
FailedNoScheduledId ==
    FailedWith("Failed to schedule Slack message: no scheduled_message_id returned")

NoRemoteCalls == openCalls = <<>> /\ scheduleCalls = <<>>

\* C1: with a non-blank message and an integer postAt, time validation passes
\* exactly when now + 15 < postAt <= now + 120*86400 (now being the one clock
\* reading of the invocation); postAt <= now + 15 is rejected with the
\* at-least-15-seconds error and postAt > now + 120*86400 with the
\* within-120-days error.
C1_TimeWindow ==
    (Invoked /\ ~MessageIsBlank /\ params.postAt.t = "number") =>
        LET now == nowSeconds.v
            postAt == params.postAt.v
        IN  /\ nowSeconds.t = "number"
            /\ (~FailedTooSoon /\ ~FailedTooFar)
                   <=> (now + 15 < postAt /\ postAt <= now + 120 * 86400)
            /\ postAt <= now + 15 <=> FailedTooSoon
            /\ postAt > now + 120 * 86400 <=> FailedTooFar

\* postAt == now + 16 was accepted and the schedule call went out
C1_Witness ==
    /\ Invoked
    /\ nowSeconds = Num(1)
    /\ params.postAt = Num(17)
    /\ ~FailedTooSoon
    /\ scheduleCalls # <<>>

\* C2: a request whose message is empty or whitespace-only fails with the
\* empty-message error whatever its other fields are, and every validation
\* failure (empty message, too soon, too far) happens with zero remote calls
\* and before the account is resolved or a client exists.
C2_ValidationFirst ==
    Invoked =>
        /\ MessageIsBlank => FailedEmptyMessage
        /\ FailedEmptyMessage => MessageIsBlank /\ nowSeconds = Undef
        /\ (FailedEmptyMessage \/ FailedTooSoon \/ FailedTooFar) =>
               /\ pc = "done"
               /\ NoRemoteCalls
               /\ account = NotResolved
               /\ client = Undef
               /\ recipient = NotParsed

\* a whitespace-only message with a too-early postAt and no usable recipient
\* is reported as the empty-message error
C2_Witness ==
    /\ Invoked
    /\ params.message.t = "string"
    /\ params.message.v # <<>>
    /\ IsBlank(params.message.v)
    /\ params.postAt = Num(0 - 60)
    /\ IsBlank(params.to.v)
    /\ FailedEmptyMessage
    /\ NoRemoteCalls

\* C3 as stated: every finished invocation made at most one conversations.open
\* call and exactly one chat.scheduleMessage call.
C3_ExactlyOneScheduleCall ==
    (Invoked /\ pc = "done") => Len(openCalls) <= 1 /\ Len(scheduleCalls) = 1

\* C3 as amended: an invocation makes at most one conversations.open call and
\* at most one chat.scheduleMessage call, never re-issuing either; it makes
\* exactly one chat.scheduleMessage call once a channel id is resolved (so
\* whenever it returns a result), and none when it fails before that.
C3_AtMostOneCallEach ==
    /\ Len(openCalls) <= 1
    /\ Len(scheduleCalls) <= 1
    /\ channelId # Undef => Len(scheduleCalls) = 1
    /\ channelId = Undef => Len(scheduleCalls) = 0
    /\ outcome.t = "result" => Len(scheduleCalls) = 1
    /\ scheduleResponse # Undef => pc = "done"
    /\ openResponse # Undef => pc # "awaitOpen"

\* a result was returned after one open call and one schedule call
C3_Witness ==
    /\ pc = "done"
    /\ outcome.t = "result"
    /\ Len(openCalls) = 1
    /\ Len(scheduleCalls) = 1

SuccessFields == {"ok", "scheduled", "scheduledMessageId", "postAt", "channelId"}
FailureFields == {"ok", "scheduled", "error"}

\* C4: execute always returns, and what it returns is the success shape with
\* the result's three fields exactly when scheduleSlackMessage returned a
\* result, and otherwise the failure shape carrying the error's message (or
\* the thrown value as a string); nothing else, and never a mix.
C4_TwoShapes ==
    /\ (caller = "tool" /\ pc = "done") => response # NoResponse
    /\ (caller = "tool" /\ pc # "done") => response = NoResponse
    /\ caller # "tool" => response = NoResponse
    /\ response # NoResponse =>
        \/ /\ DOMAIN response = SuccessFields
           /\ response.ok = TRUE
           /\ response.scheduled = TRUE
           /\ outcome.t = "result"
           /\ response.scheduledMessageId = outcome.value.scheduledMessageId
           /\ response.postAt = outcome.value.postAt
           /\ response.channelId = outcome.value.channelId
        \/ /\ DOMAIN response = FailureFields
           /\ response.ok = FALSE
           /\ response.scheduled = FALSE
           /\ outcome.t # "result"
           /\ outcome.t = "thrown" =>
                  response.error = IF outcome.err.t = "Error"
                                   THEN outcome.err.message
                                   ELSE outcome.err.text

\* the remote schedule call rejected with a value that is not an Error and
\* the tool answered with the failure shape
C4_Witness ==
    /\ caller = "tool"
    /\ scheduleResponse = [t |-> "throw", err |-> [t |-> "value", text |-> "socket hang up"]]
    /\ DOMAIN response = FailureFields
    /\ response.error = "socket hang up"

\* the mention form <@ID>, ID one or more letters or digits
MentionForm(str) ==
    /\ Len(str) >= 4
    /\ SubSeq(str, 1, 2) = <<"<", "@">>
    /\ str[Len(str)] = ">"
    /\ \A i \in 3..(Len(str) - 1) : str[i] \in AlphaNumeric

RecognisedPrefixes ==
    {<<"u", "s", "e", "r", ":">>, <<"c", "h", "a", "n", "n", "e", "l", ":">>,
     <<"s", "l", "a", "c", "k", ":">>, <<"@">>, <<"#">>}

HasPrefix(str, prefix) ==
    Len(str) >= Len(prefix) /\ \A i \in 1..Len(prefix) : str[i] = prefix[i]

Recognised(str) == MentionForm(str) \/ \E prefix \in RecognisedPrefixes : HasPrefix(str, prefix)

\* what follows the prefix
AfterPrefix(str, prefix) == SubSeq(str, Len(prefix) + 1, Len(str))

\* C5 as stated: every non-empty input whose trimmed form is neither the
\* mention form nor starts with a recognised prefix parses to the channel
\* whose id is the trimmed input.
C5_DefaultToChannelNonEmpty ==
    (ppc = "returned" /\ raw # <<>> /\ ~Recognised(TrimmedForm(raw))) =>
        parsed = [kind |-> "channel", id |-> TrimmedForm(raw)]

\* C5 as amended: every input that is non-empty after trimming and whose
\* trimmed form is neither the mention form nor starts with a recognised
\* prefix parses to the channel whose id is the trimmed input; an input whose
\* trimmed form is the mention form or starts with a recognised prefix is
\* never answered by that default.
C5_DefaultToChannel ==
    ppc = "returned" =>
        LET trimmed == TrimmedForm(raw) IN
        /\ (trimmed # <<>> /\ ~Recognised(trimmed)) =>
               parsed = [kind |-> "channel", id |-> trimmed]
        /\ Recognised(trimmed) => parsed # [kind |-> "channel", id |-> trimmed]

\* an unrecognised input with surrounding whitespace came back as the
\* channel named by its trimmed form
C5_Witness ==
    /\ ppc = "returned"
    /\ raw # TrimmedForm(raw)
    /\ TrimmedForm(raw) # <<>>
    /\ ~Recognised(TrimmedForm(raw))
    /\ parsed = [kind |-> "channel", id |-> TrimmedForm(raw)]

\* C6: an input whose trimmed form is <@ID> parses to the user ID; one that
\* starts with user: or @ and carries an id parses to that user, one that
\* starts with channel: or # and carries an id parses to that channel (the
\* id being what follows the prefix, without surrounding whitespace).
C6_PrefixedForms ==
    ppc = "returned" =>
        LET trimmed == TrimmedForm(raw) IN
        /\ MentionForm(trimmed) =>
               parsed = [kind |-> "user", id |-> SubSeq(trimmed, 3, Len(trimmed) - 1)]
        /\ \A prefix \in {<<"u", "s", "e", "r", ":">>, <<"@">>} :
               (HasPrefix(trimmed, prefix) /\ ~IsBlank(AfterPrefix(trimmed, prefix))) =>
                   parsed = [kind |-> "user", id |-> TrimmedForm(AfterPrefix(trimmed, prefix))]
        /\ \A prefix \in {<<"c", "h", "a", "n", "n", "e", "l", ":">>, <<"#">>} :
               (HasPrefix(trimmed, prefix) /\ ~IsBlank(AfterPrefix(trimmed, prefix))) =>
                   parsed = [kind |-> "channel", id |-> TrimmedForm(AfterPrefix(trimmed, prefix))]

\* a mention with whitespace around it came back as the user it names
C6_Witness ==
    /\ ppc = "returned"
    /\ raw # TrimmedForm(raw)
    /\ MentionForm(TrimmedForm(raw))
    /\ parsed = [kind |-> "user", id |-> <<"U">>]

\* C7: for a channel recipient no conversations.open call is made and the
\* channel of the schedule call and of the result is recipient.id; for a user
\* recipient the schedule call is made only after one conversations.open call
\* with users = recipient.id has answered, and its channel, and the result's
\* channelId, is the channel id that call returned, not the user id.
C7_ChannelResolution ==
    /\ recipient.kind = "channel" =>
           /\ openCalls = <<>>
           /\ openResponse = Undef
           /\ \A i \in 1..Len(scheduleCalls) : scheduleCalls[i].channel = recipient.id
           /\ outcome.t = "result" => outcome.value.channelId = recipient.id
    /\ recipient.kind = "user" =>
           /\ pc # "done" => openCalls = <<[users |-> recipient.id]>>
           /\ pc = "awaitOpen" => scheduleCalls = <<>>
           /\ scheduleCalls # <<>> =>
                  /\ openCalls = <<[users |-> recipient.id]>>
                  /\ openResponse.t = "ok"
                  /\ openResponse.channelId.t = "string"
                  /\ \A i \in 1..Len(scheduleCalls) :
                         scheduleCalls[i].channel = openResponse.channelId.v
           /\ outcome.t = "result" => outcome.value.channelId = openResponse.channelId.v

\* a message to a user was scheduled in the opened DM channel
C7_Witness ==
    /\ recipient.kind = "user"
    /\ outcome.t = "result"
    /\ openCalls = <<[users |-> recipient.id]>>
    /\ outcome.value.channelId = <<"D", "9", "9", "9">>
    /\ scheduleCalls[1].channel # recipient.id

\* C8: every chat.scheduleMessage call carries the resolved channel id, the
\* trimmed message and the requested postAt; it carries thread_ts, equal to
\* the request's thread identifier, only if the request has one, and it has no
\* thread_ts field at all when the request has none (a non-empty thread
\* identifier is always carried).
C8_ScheduleCallArguments ==
    \A i \in 1..Len(scheduleCalls) :
        LET call == scheduleCalls[i] IN
        /\ {"channel", "text", "post_at"} \subseteq DOMAIN call
        /\ DOMAIN call \subseteq {"channel", "text", "post_at", "thread_ts"}
        /\ call.channel = channelId.v
        /\ call.text = TrimmedForm(params.message.v)
        /\ call.post_at = params.postAt
        /\ "thread_ts" \in DOMAIN call =>
               params.threadTs.t = "string" /\ call.thread_ts = params.threadTs.v
        /\ params.threadTs = Undef => "thread_ts" \notin DOMAIN call
        /\ (params.threadTs.t = "string" /\ params.threadTs.v # <<>>) =>
               "thread_ts" \in DOMAIN call

\* a call without a thread identifier went out with exactly three fields and
\* the message trimmed
C8_Witness ==
    /\ Len(scheduleCalls) = 1
    /\ params.threadTs = Undef
    /\ DOMAIN scheduleCalls[1] = {"channel", "text", "post_at"}
    /\ scheduleCalls[1].text # params.message.v

TokenUnusable ==
    account.botToken.t = "undefined" \/ IsBlank(account.botToken.v)

FailedTokenMissing ==
    /\ outcome.t = "thrown"
    /\ outcome.err.t = "Error"
    /\ \E id \in {"default", "work"} :
           outcome.err.message =
               "Slack bot token missing for account \"" \o id
                   \o "\" (set channels.slack.accounts." \o id
                   \o ".botToken or SLACK_BOT_TOKEN for default)."

ParsesToNothing(str) ==
    \/ IsBlank(str)
    \/ /\ ~MentionForm(TrimmedForm(str))
       /\ \E prefix \in RecognisedPrefixes :
              /\ HasPrefix(TrimmedForm(str), prefix)
              /\ IsBlank(AfterPrefix(TrimmedForm(str), prefix))

\* C9: the steps run in the order validate, resolve credentials, parse target,
\* resolve channel, schedule call, and the first failing step ends the
\* invocation with its error and without any later step's work: an unusable
\* bot token fails before the target is parsed and before any remote call
\* (with an injected client too); a target that parses to nothing fails with
\* the missing-recipient error and zero remote calls; a conversations.open
\* that fails or returns no channel id fails the invocation with no
\* chat.scheduleMessage call.
C9_StepOrder ==
    Invoked =>
        /\ nowSeconds # Undef => ~MessageIsBlank
        /\ account # NotResolved =>
               nowSeconds # Undef /\ ~FailedTooSoon /\ ~FailedTooFar
        /\ client # Undef => account # NotResolved /\ ~TokenUnusable
        /\ recipient # NotParsed => client # Undef
        /\ openCalls # <<>> => recipient.kind = "user"
        /\ scheduleCalls # <<>> =>
               /\ channelId # Undef
               /\ recipient.kind \in {"user", "channel"}
        /\ (account # NotResolved /\ TokenUnusable) =>
               /\ FailedTokenMissing
               /\ recipient = NotParsed
               /\ client = Undef
               /\ NoRemoteCalls
        /\ FailedTokenMissing => account # NotResolved /\ TokenUnusable
        /\ (recipient # NotParsed /\ ParsesToNothing(params.to.v)) =>
               FailedNoRecipient /\ NoRemoteCalls
        /\ FailedNoRecipient =>
               recipient # NotParsed /\ ParsesToNothing(params.to.v)
        /\ (openResponse # Undef /\ openResponse.t = "throw") =>
               /\ outcome = [t |-> "thrown", err |-> openResponse.err]
               /\ scheduleCalls = <<>>
        /\ (openResponse # Undef /\ openResponse.t = "ok"
                /\ openResponse.channelId \in {Undef, Str(<<>>)}) =>
               FailedOpen /\ scheduleCalls = <<>>
        /\ (pc = "done" /\ outcome.t = "thrown" /\ scheduleResponse = Undef) =>
               scheduleCalls = <<>>

\* a blank bot token ended an invocation that had an injected client and an
\* unparsable target, before the target was looked at
C9_Witness ==
    /\ Invoked
    /\ params.client = [t |-> "injected"]
    /\ IsBlank(params.to.v)
    /\ account # NotResolved
    /\ account.botToken = Str(<<" ">>)
    /\ FailedTokenMissing
    /\ recipient = NotParsed

\* C10: a result is returned only when the chat.scheduleMessage response
\* carries a scheduled-message identifier, and a response without one fails
\* with the scheduling-failed error; the result's scheduledMessageId is the
\* response's, its channelId is the channel of the remote call, and its postAt
\* is the response's post_at whenever the response has one and the requested
\* postAt only when it has none.
C10_Result ==
    /\ outcome.t = "result" =>
           /\ scheduleResponse # Undef
           /\ scheduleResponse.t = "ok"
           /\ scheduleResponse.scheduled_message_id.t = "string"
           /\ scheduleResponse.scheduled_message_id.v # <<>>
           /\ outcome.value.scheduledMessageId = scheduleResponse.scheduled_message_id.v
           /\ outcome.value.channelId = scheduleCalls[1].channel
           /\ scheduleResponse.post_at # Undef =>
                  outcome.value.postAt = scheduleResponse.post_at
           /\ scheduleResponse.post_at = Undef =>
                  outcome.value.postAt = params.postAt
    /\ (scheduleResponse # Undef /\ scheduleResponse.t = "ok"
            /\ scheduleResponse.scheduled_message_id \in {Undef, Str(<<>>)}) =>
           FailedNoScheduledId

\* the platform confirmed a post_at other than the requested one and the
\* result carries the confirmed one
C10_Witness ==
    /\ outcome.t = "result"
    /\ scheduleResponse.post_at = Num(20)
    /\ params.postAt = Num(3600)
    /\ outcome.value.postAt = Num(20)

====
